---- MODULE Spec2Model ----
(***************************************************************************)
(* Model of the content utilities of the blog (src/unnamed/part_001):      *)
(* the related-post ranking getRelatedPosts with its helpers tokenizeTitle *)
(* and jaccardSimilarity; and of the diagram widget of the pages           *)
(* (src/unnamed/part_000), the script that loads Mermaid and svg-pan-zoom  *)
(* and renders the diagrams of the document.                               *)
(*                                                                         *)
(* Numbers.  A JavaScript number that holds a score is kept in fixed point,*)
(* in units of 1/Unit of a point, so that every quotient and every power   *)
(* of two that occurs on the inputs of the model is exact.  NaN is a value *)
(* of its own and every arithmetic operator propagates it.  Floating point *)
(* rounding is not modelled.  Time is counted in days; publish dates and   *)
(* the clock lie on multiples of the half-life, where the decay            *)
(* 30 * exp(-ln2 * days / 180) is the exact value 30 / 2^(days/180).       *)
(***************************************************************************)
EXTENDS Integers, Sequences, FiniteSets, TLC

VARIABLES
    posts,      \* the "posts" content collection, in the order getCollection yields it
    prod,       \* import.meta.env.PROD of the build
    clock,      \* the wall clock read by Date.now(), in days
    pc,         \* "idle" | "done": whether a call of getRelatedPosts has returned
    call,       \* the arguments of the last call and the time it read
    scored,     \* the ScoredCandidate list of the last call, after its sort
    result,     \* the value the last call returned
    previous,   \* <<the value the call before it returned>> when that call was
                \* made with the same arguments in the same state, else <<>>
    setA, setB, \* the arguments of a direct call of jaccardSimilarity
    similarity, \* its return value
    \* The window of the diagram widget
    dark,               \* document.documentElement has the class "dark"
    hidden,             \* document.hidden
    readyState,         \* document.readyState: "loading" | "complete"
    page,               \* how many times the document was swapped for a new page
    diagrams,           \* the .mermaid[data-mermaid-code] elements of the document
    panZoom,            \* the containers of the document hold pan-zoom instances
    mermaidInitialized, \* window.mermaidInitialized
    mermaid,            \* window.mermaid: "undefined" | "ready", and the theme
                        \* of its configuration
    svgPanZoom,         \* typeof window.svgPanZoom: "undefined" | "function"
    listeners,          \* the observers and listeners registered on the document
    \* The closure of the widget script
    currentTheme,       \* "null" | "dark" | "default"
    isRendering,
    retryCount,
    stage,              \* where initialize() is: "none" | "deferred" | "loading" |
                        \* "initialized" | "failed"
    loads,              \* where loadMermaid() and loadSvgPanZoom() are
    timers,             \* the pending setTimeout callbacks, by what set them
    passes,             \* the executions of renderMermaidDiagrams past its guards
    \* Bookkeeping of the model
    events,             \* how many events the environment has raised
    log,                \* what the last step of the widget did
    \* The post list, the calendar feed and the friend links
    sortedPosts,        \* <<the value the last call of getSortedPosts returned>>
    feed,               \* <<the body of the last response of GET>>
    friendsConfig,      \* the array friendsConfig
    friends             \* the values the calls of getEnabledFriends returned

vars == <<posts, prod, clock, pc, call, scored, result, previous, setA, setB, similarity,
          dark, hidden, readyState, page, diagrams, panZoom, mermaidInitialized,
          mermaid, svgPanZoom, listeners, currentTheme, isRendering, retryCount,
          stage, loads, timers, passes, events, log,
          sortedPosts, feed, friendsConfig, friends>>

rankVars == <<posts, prod, clock, pc, call, scored, result, previous>>
jaccardVars == <<setA, setB, similarity>>
windowVars == <<dark, hidden, readyState, page, diagrams, panZoom, mermaidInitialized,
                mermaid, svgPanZoom, listeners>>
closureVars == <<currentTheme, isRendering, retryCount, stage, loads, timers, passes>>
widgetVars == <<windowVars, closureVars, events, log>>
listVars == <<sortedPosts, feed>>
friendVars == <<friendsConfig, friends>>

---------------------------------------------------------------------------
(* Bounds of the model *)

MaxPosts == 3       \* longest collection
MaxCount == 2       \* largest explicit maxCount argument
NumItems == 3       \* size of the universe of a direct jaccardSimilarity call

---------------------------------------------------------------------------
(* Numbers *)

Unit == 8 * 105     \* 840: divisible by 1..8, and 30 * 840 by 2^4

NaN == 0 - 2^30

NumAdd(x, y) == IF x = NaN \/ y = NaN THEN NaN ELSE x + y
NumSub(x, y) == IF x = NaN \/ y = NaN THEN NaN ELSE x - y

\* x / y for two counts x, y >= 0, in fixed point; 0 / 0 is NaN.  The model
\* never divides a positive count by zero.
NumDivCounts(x, y) == IF y = 0 THEN NaN ELSE (x * Unit) \div y

\* x * k for a fixed-point x and an integer k
NumTimes(x, k) == IF x = NaN THEN NaN ELSE x * k

RECURSIVE Pow2(_)
Pow2(k) == IF k <= 0 THEN 1 ELSE 2 * Pow2(k - 1)

---------------------------------------------------------------------------
(* Sequences *)

Range(s) == {s[i] : i \in 1..Len(s)}

---------------------------------------------------------------------------
(* Array.prototype.sort                                                    *)
(*                                                                         *)
(* The engine's sort for arrays shorter than 64 elements: find the run at  *)
(* the head of the array (reversing it when it is strictly descending),    *)
(* then insert each later element by binary search.  A comparator result   *)
(* of NaN counts as +0.  With a consistent comparator the outcome is the   *)
(* stable sort; with an inconsistent one it is whatever these steps yield. *)
(* cmp[i][j] is the comparator's result on the i-th and j-th element of    *)
(* the array as it was before the sort; the value is the sequence of those *)
(* original positions in sorted order.                                     *)

SortCompare(cmp, i, j) == IF cmp[i][j] = NaN THEN 0 ELSE cmp[i][j]

\* Length of the run that starts the array, and whether it is descending
CountRun(cmp) ==
    LET n == Len(cmp)
        descending == n >= 2 /\ SortCompare(cmp, 2, 1) < 0
        Continues(i) == IF descending THEN SortCompare(cmp, i, i - 1) < 0
                                      ELSE SortCompare(cmp, i, i - 1) >= 0
        len == IF n < 2 THEN n
               ELSE CHOOSE r \in 2..n :
                        /\ \A i \in 3..r : Continues(i)
                        /\ r < n => ~Continues(r + 1)
    IN  [length |-> len, descending |-> descending]

\* Where the element at original position pivot goes in the sorted prefix
BinarySearch(cmp, prefix, pivot) ==
    LET search[left \in 0..Len(prefix), right \in 0..Len(prefix)] ==
            IF left >= right THEN left
            ELSE LET mid == left + ((right - left) \div 2)
                 IN  IF SortCompare(cmp, pivot, prefix[mid + 1]) < 0
                     THEN search[left, mid]
                     ELSE search[mid + 1, right]
    IN  search[0, Len(prefix)]

InsertAt(s, pos, x) == SubSeq(s, 1, pos) \o <<x>> \o SubSeq(s, pos + 1, Len(s))

SortPermutation(cmp) ==
    LET n == Len(cmp)
        run == CountRun(cmp)
        head == [i \in 1..run.length |->
                    IF run.descending THEN run.length + 1 - i ELSE i]
        sortedTo[i \in run.length..n] ==
            IF i = run.length THEN head
            ELSE LET prefix == sortedTo[i - 1]
                 IN  InsertAt(prefix, BinarySearch(cmp, prefix, i), i)
    IN  sortedTo[n]

---------------------------------------------------------------------------
(* Content entries                                                         *)
(*                                                                         *)
(* An entry is [id, data]; a property that is undefined on an entry is a   *)
(* field its data record does not have.  published holds the time value of *)
(* the Date, NaN for an Invalid Date.                                      *)

Has(data, field) == field \in DOMAIN data

\* data.tags || []
TagsOrEmpty(data) == IF Has(data, "tags") THEN data.tags ELSE <<>>

\* data.category || ""
CategoryOrEmpty(data) == IF Has(data, "category") THEN data.category ELSE ""

\* !!data.password: undefined and "" are falsy
HasPassword(data) == Has(data, "password") /\ data.password # ""

\* data.draft !== true
NotDraft(data) == ~(Has(data, "draft") /\ data.draft = TRUE)

\* new Date(data.published).getTime()
GetTime(data) == data.published

Entry(id, data) == [id |-> id, data |-> data]

\* The entries a collection can hold.  "stack" scores like "queue" against
\* every reference; "secret" is password protected; "broken" has an Invalid
\* Date and no category; "notes" has no tags and is dated after the first
\* clock value; "misc" is a draft with an empty password.
Pool ==
    { Entry("cache",  [title |-> "Building a Cache", tags |-> <<"go", "rust">>,
                       category |-> "systems", published |-> 360]),
      Entry("queue",  [title |-> "Building a Queue", tags |-> <<"go">>,
                       category |-> "systems", published |-> 180]),
      Entry("stack",  [title |-> "Building a Queue", tags |-> <<"go", "go">>,
                       category |-> "systems", published |-> 180]),
      Entry("notes",  [title |-> "building a cache!",
                       category |-> "systems", published |-> 540]),
      Entry("secret", [title |-> "Building a Cache", tags |-> <<"go", "rust">>,
                       category |-> "", published |-> 360,
                       password |-> "hunter2"]),
      Entry("broken", [title |-> "", tags |-> <<"rust">>, published |-> NaN]),
      Entry("misc",   [title |-> "?!", tags |-> <<>>, category |-> "Systems",
                       published |-> 0, password |-> "", draft |-> TRUE]) }

Clocks == {360, 540}

\* getCollection("posts", ({ data }) => PROD ? data.draft !== true : true)
GetCollection(collection, isProd) ==
    LET Keep(e) == IF isProd THEN NotDraft(e.data) ELSE TRUE
    IN  SelectSeq(collection, Keep)

---------------------------------------------------------------------------
(* tokenizeTitle *)

Word(s) == [segment |-> s, isWordLike |-> TRUE]
NonWord(s) == [segment |-> s, isWordLike |-> FALSE]

\* Intl.Segmenter("zh", {granularity: "word"}).segment(title), on the titles
\* of the pool
Segment(title) ==
    CASE title = "Building a Cache" ->
            <<Word("Building"), NonWord(" "), Word("a"), NonWord(" "), Word("Cache")>>
      [] title = "Building a Queue" ->
            <<Word("Building"), NonWord(" "), Word("a"), NonWord(" "), Word("Queue")>>
      [] title = "building a cache!" ->
            <<Word("building"), NonWord(" "), Word("a"), NonWord(" "), Word("cache"),
              NonWord("!")>>
      [] title = "?!" -> <<NonWord("?"), NonWord("!")>>
      [] title = "" -> <<>>

\* String.prototype.toLowerCase, on the segments of the pool
ToLowerCase(s) ==
    CASE s = "Building" -> "building"
      [] s = "Cache" -> "cache"
      [] s = "Queue" -> "queue"
      [] OTHER -> s

tokenizeTitle(title) ==
    LET segments == Segment(title)
    IN  {ToLowerCase(segments[i].segment) :
            i \in {j \in 1..Len(segments) : segments[j].isWordLike}}

---------------------------------------------------------------------------
(* jaccardSimilarity *)

\* Mutant: neither test for an empty union is made
jaccardUnguarded(a, b) ==
    LET intersection == Cardinality({item \in a : item \in b})
        union == Cardinality(a) + Cardinality(b) - intersection
    IN  NumDivCounts(intersection, union)

jaccardSimilarity(a, b) ==
    IF Cardinality(a) = 0 /\ Cardinality(b) = 0 THEN 0
    ELSE LET intersection == Cardinality({item \in a : item \in b})
             union == Cardinality(a) + Cardinality(b) - intersection
         IN  IF union = 0 THEN 0 ELSE NumDivCounts(intersection, union)

---------------------------------------------------------------------------
(* getRelatedPosts *)

DefaultMaxCount == 5
SimilarityPoints == 100
FreshnessPoints == 30
HalfLifeDays == 180
CategoryPoints == 10

\* maxCount = 5: the argument list is <<>> or <<maxCount>>
MaxCountOf(args) == IF args = <<>> THEN DefaultMaxCount ELSE args[1]

\* Mutant: the password test is left out of the filter
CandidatesKeepingRestricted(allPosts, currentPost) ==
    LET Keep(p) == p.id # currentPost.id
    IN  SelectSeq(allPosts, Keep)

\* Mutant: the id test is left out of the filter
CandidatesKeepingSelf(allPosts, currentPost) ==
    LET Keep(p) == ~HasPassword(p.data)
    IN  SelectSeq(allPosts, Keep)

\* allPosts.filter((p) => p.id !== currentPost.id && !p.data.password)
Candidates(allPosts, currentPost) ==
    LET Keep(p) == p.id # currentPost.id /\ ~HasPassword(p.data)
    IN  SelectSeq(allPosts, Keep)

\* Mutant: the score of an entry dated after now is clamped to 30
TimeFreshnessClamped(daysSincePublished) ==
    IF daysSincePublished = NaN THEN NaN
    ELSE LET halfLives == daysSincePublished \div HalfLifeDays
         IN  IF halfLives >= 0
             THEN (FreshnessPoints * Unit) \div Pow2(halfLives)
             ELSE FreshnessPoints * Unit

\* 30 * Math.exp((-Math.LN2 * daysSincePublished) / 180), on whole half-lives
TimeFreshness(daysSincePublished) ==
    IF daysSincePublished = NaN THEN NaN
    ELSE LET halfLives == daysSincePublished \div HalfLifeDays
         IN  IF halfLives >= 0
             THEN (FreshnessPoints * Unit) \div Pow2(halfLives)
             ELSE (FreshnessPoints * Unit) * Pow2(0 - halfLives)

\* Mutant: the two non-empty tests are left out
CategoryBonusOfEqual(currentCategory, postCategory) ==
    IF currentCategory = postCategory THEN CategoryPoints * Unit ELSE 0

\* currentCategory && postCategory && currentCategory === postCategory ? 10 : 0
CategoryBonus(currentCategory, postCategory) ==
    IF currentCategory # "" /\ postCategory # "" /\ currentCategory = postCategory
    THEN CategoryPoints * Unit
    ELSE 0

\* The body of scored = candidates.map((post) => ...)
ScoreOf(currentPost, post, now) ==
    LET currentTags == Range(TagsOrEmpty(currentPost.data))
        currentTokens == tokenizeTitle(currentPost.data.title)
        currentCategory == CategoryOrEmpty(currentPost.data)
        postTags == Range(TagsOrEmpty(post.data))
        tagMatchScore ==
            NumTimes(jaccardSimilarity(currentTags, postTags), SimilarityPoints)
        postTokens == tokenizeTitle(post.data.title)
        titleSimilarityScore ==
            NumTimes(jaccardSimilarity(currentTokens, postTokens), SimilarityPoints)
        daysSincePublished == NumSub(now, GetTime(post.data))
        timeFreshnessScore == TimeFreshness(daysSincePublished)
        postCategory == CategoryOrEmpty(post.data)
        categoryBonus == CategoryBonus(currentCategory, postCategory)
        totalScore ==
            NumAdd(NumAdd(NumAdd(tagMatchScore, titleSimilarityScore),
                          timeFreshnessScore), categoryBonus)
    IN  [post |-> post,
         totalScore |-> totalScore,
         tagMatchScore |-> tagMatchScore,
         timeFreshnessScore |-> timeFreshnessScore,
         categoryBonus |-> categoryBonus]

ScoreAll(currentPost, candidates, now) ==
    [i \in 1..Len(candidates) |-> ScoreOf(currentPost, candidates[i], now)]

\* (a, b) => b.totalScore - a.totalScore
ByTotalScore(a, b) == NumSub(b.totalScore, a.totalScore)

\* (a, b) => b.timeFreshnessScore + b.categoryBonus
\*           - (a.timeFreshnessScore + a.categoryBonus)
ByFreshnessAndCategory(a, b) ==
    NumSub(NumAdd(b.timeFreshnessScore, b.categoryBonus),
           NumAdd(a.timeFreshnessScore, a.categoryBonus))

Permute(s, perm) == [k \in 1..Len(s) |-> s[perm[k]]]

\* scored.sort((a, b) => b.totalScore - a.totalScore)
SortByTotalScore(list) ==
    Permute(list, SortPermutation(
        [i \in 1..Len(list) |-> [j \in 1..Len(list) |-> ByTotalScore(list[i], list[j])]]))

\* withoutTagMatch.sort(...)
SortByFreshnessAndCategory(list) ==
    Permute(list, SortPermutation(
        [i \in 1..Len(list) |->
            [j \in 1..Len(list) |-> ByFreshnessAndCategory(list[i], list[j])]]))

\* scored.filter((s) => s.tagMatchScore > 0)
WithTagMatch(list) ==
    LET Keep(s) == s.tagMatchScore # NaN /\ s.tagMatchScore > 0
    IN  SelectSeq(list, Keep)

\* scored.filter((s) => s.tagMatchScore === 0)
WithoutTagMatch(list) ==
    LET Keep(s) == s.tagMatchScore = 0
    IN  SelectSeq(list, Keep)

\* Mutant: the loop breaks on result.length === maxCount
RECURSIVE PushUntilExactly(_, _, _)
PushUntilExactly(res, list, maxCount) ==
    IF list = <<>> \/ Len(res) = maxCount THEN res
    ELSE PushUntilExactly(
            Append(res, [id |-> Head(list).post.id, data |-> Head(list).post.data]),
            Tail(list), maxCount)

\* Mutant: the loop breaks on result.length > maxCount
RECURSIVE PushUntilOneMore(_, _, _)
PushUntilOneMore(res, list, maxCount) ==
    IF list = <<>> \/ Len(res) > maxCount THEN res
    ELSE PushUntilOneMore(
            Append(res, [id |-> Head(list).post.id, data |-> Head(list).post.data]),
            Tail(list), maxCount)

\* for (const s of list) { if (result.length >= maxCount) break;
\*                         result.push({ id: s.post.id, data: s.post.data }); }
RECURSIVE PushUntil(_, _, _)
PushUntil(res, list, maxCount) ==
    IF list = <<>> \/ Len(res) >= maxCount THEN res
    ELSE PushUntil(Append(res, [id |-> Head(list).post.id, data |-> Head(list).post.data]),
                   Tail(list), maxCount)

\* From const result = [] to return result
Select(sorted, maxCount) ==
    LET withTagMatch == WithTagMatch(sorted)
        withoutTagMatch == WithoutTagMatch(sorted)
        tagged == PushUntil(<<>>, withTagMatch, maxCount)
    IN  IF Len(tagged) < maxCount
        THEN PushUntil(tagged, SortByFreshnessAndCategory(withoutTagMatch), maxCount)
        ELSE tagged

\* Mutant: result is an array that outlives the call
GetRelatedPostsKeepingResult(currentPost, args) ==
    LET allPosts == GetCollection(posts, prod)
        candidates == Candidates(allPosts, currentPost)
        now == clock
        sorted == SortByTotalScore(ScoreAll(currentPost, candidates, now))
    IN  /\ call' = <<[currentPost |-> currentPost, args |-> args, now |-> now]>>
        /\ scored' = sorted
        /\ result' = result \o Select(sorted, MaxCountOf(args))
        /\ pc' = "done"
        /\ UNCHANGED <<posts, prod, clock>>
        /\ UNCHANGED jaccardVars
        /\ UNCHANGED <<widgetVars, listVars, friendVars>>

\* Mutant: the sort runs on the collection itself when no entry was filtered
\* out of it
GetRelatedPostsSortingCorpus(currentPost, args) ==
    LET allPosts == GetCollection(posts, prod)
        candidates == Candidates(allPosts, currentPost)
        now == clock
        sorted == SortByTotalScore(ScoreAll(currentPost, candidates, now))
    IN  /\ call' = <<[currentPost |-> currentPost, args |-> args, now |-> now]>>
        /\ scored' = sorted
        /\ result' = Select(sorted, MaxCountOf(args))
        /\ pc' = "done"
        /\ posts' = IF Len(sorted) = Len(posts)
                    THEN [i \in 1..Len(posts) |-> sorted[i].post]
                    ELSE posts
        /\ UNCHANGED <<prod, clock>>
        /\ UNCHANGED jaccardVars
        /\ UNCHANGED <<widgetVars, listVars, friendVars>>

\* One call of getRelatedPosts(currentPost, ...args)
GetRelatedPosts(currentPost, args) ==
    LET allPosts == GetCollection(posts, prod)
        candidates == Candidates(allPosts, currentPost)
        now == clock
        sorted == SortByTotalScore(ScoreAll(currentPost, candidates, now))
    IN  /\ call' = <<[currentPost |-> currentPost, args |-> args, now |-> now]>>
        /\ scored' = sorted
        /\ result' = Select(sorted, MaxCountOf(args))
        /\ pc' = "done"
        /\ UNCHANGED <<posts, prod, clock>>
        /\ UNCHANGED jaccardVars
        /\ UNCHANGED <<widgetVars, listVars, friendVars>>

\* The caller is done with the returned list
Return ==
    /\ pc = "done"
    /\ pc' = "idle"
    /\ call' = <<>>
    /\ scored' = <<>>
    /\ result' = <<>>
    /\ previous' = <<>>
    /\ UNCHANGED <<posts, prod, clock>>
    /\ UNCHANGED jaccardVars
    /\ UNCHANGED <<widgetVars, listVars, friendVars>>

\* Time passes between calls
Tick ==
    /\ pc = "idle"
    /\ \E later \in Clocks : later > clock /\ clock' = later
    /\ UNCHANGED <<posts, prod, pc, call, scored, result, previous>>
    /\ UNCHANGED jaccardVars
    /\ UNCHANGED <<widgetVars, listVars, friendVars>>

---------------------------------------------------------------------------
(* The window of the diagram widget before its script is evaluated         *)

MaxEvents == 2      \* most events the environment raises in a run

\* What setTimeout callbacks are set by: the mutation observer, the
\* astro:page-load listener, the visibilitychange listener, the catch of
\* renderMermaidDiagrams, the catch of initializeMermaid
TimerKinds == {"theme", "pageLoad", "visibility", "retry", "initRetry"}

Source == [kind |-> "source"]
Loading == [kind |-> "loading"]
Svg(theme, isDark) ==
    [kind |-> "svg", theme |-> theme,
     filter |-> IF isDark THEN "brightness(0.9) contrast(1.1)" ELSE "none"]
ErrorPlaceholder == [kind |-> "error"]

Diagram(code) == [code |-> code, content |-> Source]

\* The documents a page can be, each diagram element with its source as
\* content: no diagram, one, two, and one next to an element without code
Documents ==
    { <<>>,
      <<Diagram("graph TD; A-->B")>>,
      <<Diagram("graph TD; A-->B"), Diagram("pie")>>,
      <<Diagram("graph TD; A-->B"), Diagram("")>> }

InitWindow(isDark, ready, document) ==
    /\ dark = isDark
    /\ hidden = FALSE
    /\ readyState = ready
    /\ page = 0
    /\ diagrams = document
    /\ panZoom = FALSE
    /\ mermaidInitialized = FALSE
    /\ mermaid = [state |-> "undefined", theme |-> "none"]
    /\ svgPanZoom = "undefined"
    /\ listeners = [observer |-> 0, pageLoad |-> 0, visibilityChange |-> 0,
                    domContentLoaded |-> 0]
    /\ currentTheme = "null"
    /\ isRendering = FALSE
    /\ retryCount = 0
    /\ stage = "none"
    /\ loads = [mermaid |-> "idle", svgPanZoom |-> "idle"]
    /\ timers = [k \in TimerKinds |-> 0]
    /\ passes = <<>>
    /\ events = 0
    /\ log = <<>>

\* No post list, no feed and no friend links have been asked for
InitLists ==
    /\ sortedPosts = <<>>
    /\ feed = <<>>

InitFriends(config) ==
    /\ friendsConfig = config
    /\ friends = <<>>

\* The build has no window
NoWindow == InitWindow(FALSE, "complete", <<>>)

---------------------------------------------------------------------------
(* Specification of the ranking *)

RECURSIVE InjectiveSeqs(_, _)
InjectiveSeqs(S, n) ==
    IF n = 0 THEN {<<>>}
    ELSE LET shorter == InjectiveSeqs(S, n - 1)
         IN  shorter \cup
             {Append(s, x) : <<s, x>> \in
                {<<s, x>> \in shorter \X S : Len(s) = n - 1 /\ x \notin Range(s)}}

\* The argument lists of a call: none, or a maxCount from -1 up to the
\* bound, or as many as the collection holds
MaxCountArgs(collection) ==
    {<<>>} \cup {<<n>> : n \in (0 - 1)..MaxCount} \cup {<<Len(collection)>>}

Init ==
    /\ posts \in InjectiveSeqs(Pool, MaxPosts)
    /\ prod \in BOOLEAN
    /\ clock = 360
    /\ pc = "idle"
    /\ call = <<>>
    /\ scored = <<>>
    /\ result = <<>>
    /\ previous = <<>>
    /\ setA = {}
    /\ setB = {}
    /\ similarity = <<>>
    /\ NoWindow
    /\ InitLists
    /\ InitFriends(<<>>)

\* A page asks for its related posts
FirstCall ==
    /\ pc = "idle"
    /\ \E currentPost \in Pool \cup Range(posts), args \in MaxCountArgs(posts) :
            GetRelatedPosts(currentPost, args)
    /\ previous' = <<>>

Next == FirstCall \/ Return

Spec == Init /\ [][Next]_vars

---------------------------------------------------------------------------
(* Specification of repeated calls: the same page is rendered again, at    *)
(* once or after time has passed.                                          *)

SecondCall ==
    /\ pc = "done"
    /\ previous = <<>>
    /\ GetRelatedPosts(call[1].currentPost, call[1].args)
    /\ previous' = <<result>>

NextRepeat == FirstCall \/ SecondCall \/ Return \/ Tick

SpecRepeat == Init /\ [][NextRepeat]_vars

---------------------------------------------------------------------------
(* Specification of the ranking over a longer collection: five entries     *)
(* that score alike against every reference, an older entry "intro" and    *)
(* the entry "broken" with the Invalid Date, in every order that keeps the *)
(* five alike entries in one relative order.                               *)

Alike(id) == Entry(id, [title |-> "Building a Queue", tags |-> <<"go">>,
                        category |-> "systems", published |-> 180])

ArchiveAlike == <<Alike("queue"), Alike("heap"), Alike("list"), Alike("tree"), Alike("trie")>>

ArchiveIntro == Entry("intro", [title |-> "", tags |-> <<"go">>, published |-> 0])

ArchiveBroken == Entry("broken", [title |-> "", tags |-> <<"rust">>, published |-> NaN])

ArchiveOrders ==
    {InsertAt(InsertAt(ArchiveAlike, i, ArchiveIntro), j, ArchiveBroken) :
        i \in 0..Len(ArchiveAlike), j \in 0..(Len(ArchiveAlike) + 1)}

InitArchive ==
    /\ posts \in ArchiveOrders
    /\ prod \in BOOLEAN
    /\ clock = 360
    /\ pc = "idle"
    /\ call = <<>>
    /\ scored = <<>>
    /\ result = <<>>
    /\ previous = <<>>
    /\ setA = {}
    /\ setB = {}
    /\ similarity = <<>>
    /\ NoWindow
    /\ InitLists
    /\ InitFriends(<<>>)

SpecArchive == InitArchive /\ [][Next]_vars

---------------------------------------------------------------------------
(* Specification of the ranking over untagged entries: three entries of    *)
(* one date and category, two of them with one title, next to "intro" and  *)
(* the entry "broken" with the Invalid Date, in every order of up to       *)
(* MaxUntagged of them.                                                    *)

MaxUntagged == 4

Untagged(id, title) ==
    Entry(id, [title |-> title, category |-> "systems", published |-> 180])

UntaggedPool ==
    { Untagged("caching", "Building a Cache"),
      Untagged("queueing", "Building a Queue"),
      Untagged("queues", "Building a Queue"),
      ArchiveIntro,
      ArchiveBroken }

InitUntagged ==
    /\ posts \in InjectiveSeqs(UntaggedPool, MaxUntagged)
    /\ prod \in BOOLEAN
    /\ clock = 360
    /\ pc = "idle"
    /\ call = <<>>
    /\ scored = <<>>
    /\ result = <<>>
    /\ previous = <<>>
    /\ setA = {}
    /\ setB = {}
    /\ similarity = <<>>
    /\ NoWindow
    /\ InitLists
    /\ InitFriends(<<>>)

SpecUntagged == InitUntagged /\ [][Next]_vars

---------------------------------------------------------------------------
(* Specification of direct calls of jaccardSimilarity *)

ItemNames == <<"go", "rust", "astro", "css", "svelte", "mdx">>
Items == {ItemNames[i] : i \in 1..NumItems}

InitJaccard ==
    /\ setA \in SUBSET Items
    /\ setB \in SUBSET Items
    /\ similarity = <<>>
    /\ posts = <<>>
    /\ prod = TRUE
    /\ clock = 360
    /\ pc = "idle"
    /\ call = <<>>
    /\ scored = <<>>
    /\ result = <<>>
    /\ previous = <<>>
    /\ NoWindow
    /\ InitLists
    /\ InitFriends(<<>>)

JaccardCall ==
    /\ similarity = <<>>
    /\ similarity' = <<jaccardSimilarity(setA, setB)>>
    /\ UNCHANGED <<setA, setB>>
    /\ UNCHANGED rankVars
    /\ UNCHANGED <<widgetVars, listVars, friendVars>>

NextJaccard == JaccardCall

SpecJaccard == InitJaccard /\ [][NextJaccard]_vars

---------------------------------------------------------------------------
(* The diagram widget (src/unnamed/part_000)                               *)
(*                                                                         *)
(* One action is one task of the event loop: a callback runs from its      *)
(* start to its first await of a timer, a script load or mermaid.render,   *)
(* together with the promise reactions that its end sets off.  The calls   *)
(* into the Mermaid library, mermaid.initialize and mermaid.render, may    *)
(* fail each time they are made; so may each script load.  Pending timers  *)
(* fire in any order.                                                      *)

MAX_RETRIES == 3
MaxAttempts == 3

ThemeOf(isDark) == IF isDark THEN "dark" ELSE "default"

SetTimeout(pending, kind) == [pending EXCEPT ![kind] = @ + 1]

ClearTimeout(pending, kind) == [pending EXCEPT ![kind] = @ - 1]

RemoveAt(q, k) == SubSeq(q, 1, k - 1) \o SubSeq(q, k + 1, Len(q))

\* hasThemeChanged(), as the pair of its return value and the new currentTheme
hasThemeChanged(theme) ==
    LET newTheme == ThemeOf(dark)
    IN  IF theme # newTheme THEN <<TRUE, newTheme>> ELSE <<FALSE, theme>>

\* The execution of renderMermaidDiagrams that has just found the elements
\* of the document
NewPass ==
    [page |-> page,
     pc |-> "delay",
     isDark |-> FALSE,
     elements |-> [i \in 1..Len(diagrams) |->
                    [code |-> diagrams[i].code, state |-> "pending",
                     attempts |-> 0, calls |-> 0, theme |-> "none", shown |-> "none"]]]

\* Mutant: the isRendering guard is left out
EnterRenderUnguarded(rendering, running, instances, library) ==
    IF library.state # "ready"
    THEN [isRendering |-> rendering, passes |-> running, panZoom |-> instances,
          outcome |-> "skipped: mermaid not available"]
    ELSE IF Len(diagrams) = 0
    THEN [isRendering |-> FALSE, passes |-> running, panZoom |-> FALSE,
          outcome |-> "returned: no elements"]
    ELSE [isRendering |-> TRUE, passes |-> Append(running, NewPass), panZoom |-> FALSE,
          outcome |-> "started"]

\* renderMermaidDiagrams() from its call to its first await or return, on the
\* values isRendering, passes, panZoom and window.mermaid have when it is
\* called
EnterRender(rendering, running, instances, library) ==
    IF rendering
    THEN [isRendering |-> rendering, passes |-> running, panZoom |-> instances,
          outcome |-> "skipped: rendering"]
    ELSE IF library.state # "ready"
    THEN [isRendering |-> rendering, passes |-> running, panZoom |-> instances,
          outcome |-> "skipped: mermaid not available"]
    ELSE IF Len(diagrams) = 0
    THEN [isRendering |-> FALSE, passes |-> running, panZoom |-> FALSE,
          outcome |-> "returned: no elements"]
    ELSE [isRendering |-> TRUE, passes |-> Append(running, NewPass), panZoom |-> FALSE,
          outcome |-> "started"]

\* element.innerHTML = content, seen in the document when the element is
\* still part of it
SetInnerHTML(pass, i, content) ==
    IF pass.page = page THEN [diagrams EXCEPT ![i].content = content] ELSE diagrams

\* One turn of the attempt loop of an element up to the await of
\* mermaid.render: no code ends the loop
Attempt(element) ==
    IF element.code = ""
    THEN [element EXCEPT !.state = "done"]
    ELSE [element EXCEPT !.state = "rendering", !.calls = @ + 1,
                         !.theme = mermaid'.theme, !.shown = "loading"]

AllSettled(pass) == \A i \in 1..Len(pass.elements) : pass.elements[i].state = "done"

\* initPanZoom(): nothing without the library; else an instance for every
\* container whose diagram holds an svg
InitPanZoom(document, instances) ==
    IF svgPanZoom # "function" THEN instances
    ELSE instances \/ \E i \in 1..Len(document) : document[i].content.kind = "svg"

\* Mutant: the catch schedules a retry whatever retryCount is
CatchRenderUnbounded(pending) ==
    /\ retryCount' = retryCount + 1
    /\ timers' = SetTimeout(pending, "retry")

\* The catch of renderMermaidDiagrams
CatchRender(pending) ==
    IF retryCount < MAX_RETRIES
    THEN /\ retryCount' = retryCount + 1
         /\ timers' = SetTimeout(pending, "retry")
    ELSE /\ retryCount' = retryCount
         /\ timers' = pending

\* The pass k goes on as pass, with the document as document: when every
\* element has settled, Promise.all resolves and the pass ends
Continue(k, pass, document) ==
    IF AllSettled(pass)
    THEN /\ passes' = RemoveAt(passes, k)
         /\ retryCount' = 0
         /\ panZoom' = InitPanZoom(document, panZoom)
         /\ isRendering' = FALSE
         /\ diagrams' = document
         /\ log' = <<"pass", "completed", pass>>
    ELSE /\ passes' = [passes EXCEPT ![k] = pass]
         /\ diagrams' = document
         /\ log' = <<"pass", "continues">>
         /\ UNCHANGED <<retryCount, panZoom, isRendering>>

\* The delay of 100 ms is over: the pass reads the theme, configures Mermaid
\* and starts the attempt loop of every element; or mermaid.initialize
\* throws, and the catch and the finally run
AfterDelay(k) ==
    /\ passes[k].pc = "delay"
    /\ \/ /\ mermaid' = [mermaid EXCEPT !.theme = ThemeOf(dark)]
          /\ LET pass == [passes[k] EXCEPT
                            !.pc = "rendering",
                            !.isDark = dark,
                            !.elements = [i \in 1..Len(@) |-> Attempt(@[i])]]
                  document ==
                    IF pass.page = page
                    THEN [i \in 1..Len(diagrams) |->
                            IF pass.elements[i].state = "rendering"
                            THEN [diagrams[i] EXCEPT !.content = Loading]
                            ELSE diagrams[i]]
                    ELSE diagrams
              IN  Continue(k, pass, document)
          /\ UNCHANGED timers
       \/ /\ CatchRender(timers)
          /\ isRendering' = FALSE
          /\ passes' = RemoveAt(passes, k)
          /\ log' = <<"pass", "failed">>
          /\ UNCHANGED <<mermaid, diagrams, panZoom>>
    /\ UNCHANGED <<dark, hidden, readyState, page, mermaidInitialized, svgPanZoom,
                   listeners, currentTheme, stage, loads, events>>
    /\ UNCHANGED <<rankVars, jaccardVars, listVars, friendVars>>

\* mermaid.render resolves for element i of pass k
RenderResolves(k, i) ==
    /\ passes[k].pc = "rendering"
    /\ passes[k].elements[i].state = "rendering"
    /\ LET pass == [passes[k] EXCEPT !.elements[i].state = "done",
                                     !.elements[i].shown = "svg"]
           svg == Svg(passes[k].elements[i].theme, passes[k].isDark)
       IN  Continue(k, pass, SetInnerHTML(pass, i, svg))
    /\ UNCHANGED <<dark, hidden, readyState, page, mermaidInitialized, mermaid,
                   svgPanZoom, listeners, currentTheme, stage, loads, timers, events>>
    /\ UNCHANGED <<rankVars, jaccardVars, listVars, friendVars>>

\* Mutant: the attempt loop gives up on attempts > maxAttempts
RenderRejectsOneMore(k, i) ==
    /\ passes[k].pc = "rendering"
    /\ passes[k].elements[i].state = "rendering"
    /\ LET attempts == passes[k].elements[i].attempts + 1
       IN  IF attempts > MaxAttempts
           THEN LET pass == [passes[k] EXCEPT !.elements[i].attempts = attempts,
                                              !.elements[i].state = "done",
                                              !.elements[i].shown = "error"]
                IN  Continue(k, pass, SetInnerHTML(pass, i, ErrorPlaceholder))
           ELSE LET pass == [passes[k] EXCEPT !.elements[i].attempts = attempts,
                                              !.elements[i].state = "waiting"]
                IN  Continue(k, pass, diagrams)
    /\ UNCHANGED <<dark, hidden, readyState, page, mermaidInitialized, mermaid,
                   svgPanZoom, listeners, currentTheme, stage, loads, timers, events>>
    /\ UNCHANGED <<rankVars, jaccardVars, listVars, friendVars>>

\* mermaid.render rejects for element i of pass k
RenderRejects(k, i) ==
    /\ passes[k].pc = "rendering"
    /\ passes[k].elements[i].state = "rendering"
    /\ LET attempts == passes[k].elements[i].attempts + 1
       IN  IF attempts >= MaxAttempts
           THEN LET pass == [passes[k] EXCEPT !.elements[i].attempts = attempts,
                                              !.elements[i].state = "done",
                                              !.elements[i].shown = "error"]
                IN  Continue(k, pass, SetInnerHTML(pass, i, ErrorPlaceholder))
           ELSE LET pass == [passes[k] EXCEPT !.elements[i].attempts = attempts,
                                              !.elements[i].state = "waiting"]
                IN  Continue(k, pass, diagrams)
    /\ UNCHANGED <<dark, hidden, readyState, page, mermaidInitialized, mermaid,
                   svgPanZoom, listeners, currentTheme, stage, loads, timers, events>>
    /\ UNCHANGED <<rankVars, jaccardVars, listVars, friendVars>>

\* The wait of 500 ms * attempts is over for element i of pass k
RetryAttempt(k, i) ==
    /\ passes[k].pc = "rendering"
    /\ passes[k].elements[i].state = "waiting"
    /\ mermaid' = mermaid
    /\ LET pass == [passes[k] EXCEPT !.elements[i] = Attempt(@)]
       IN  Continue(k, pass, SetInnerHTML(pass, i, Loading))
    /\ UNCHANGED <<dark, hidden, readyState, page, mermaidInitialized,
                   svgPanZoom, listeners, currentTheme, stage, loads, timers, events>>
    /\ UNCHANGED <<rankVars, jaccardVars, listVars, friendVars>>

\* initializeMermaid(): waitForMermaid resolves at once when window.mermaid
\* is there and times out when it is not; mermaid.initialize configures the
\* library or throws; then renderMermaidDiagrams() is entered
InitializeMermaid(pending, library) ==
    /\ \/ /\ library.state = "ready"
          /\ mermaid' = [library EXCEPT !.theme = "default"]
          /\ LET entered == EnterRender(isRendering, passes, panZoom, mermaid')
             IN  /\ isRendering' = entered.isRendering
                 /\ passes' = entered.passes
                 /\ panZoom' = entered.panZoom
                 /\ log' = <<"initializeMermaid", entered.outcome>>
          /\ timers' = pending
          /\ UNCHANGED retryCount
       \/ /\ IF retryCount < MAX_RETRIES
             THEN /\ retryCount' = retryCount + 1
                  /\ timers' = SetTimeout(pending, "initRetry")
             ELSE /\ retryCount' = retryCount
                  /\ timers' = pending
          /\ log' = <<"initializeMermaid", "failed">>
          /\ mermaid' = library
          /\ UNCHANGED <<isRendering, passes, panZoom>>

\* initialize() up to the await of the two loads
Initialize ==
    /\ listeners' = [listeners EXCEPT !.observer = @ + 1, !.pageLoad = @ + 1,
                                      !.visibilityChange = @ + 1]
    /\ currentTheme' = ThemeOf(dark)
    /\ loads' = [mermaid |-> IF mermaid.state # "undefined" THEN "resolved" ELSE "primary",
                 svgPanZoom |-> IF svgPanZoom # "undefined" THEN "resolved" ELSE "primary"]
    /\ stage' = "loading"
    /\ log' = <<"initialize">>

\* Mutant: the script does not look at window.mermaidInitialized
EvaluateAgain ==
    /\ events < MaxEvents
    /\ events' = events + 1
    /\ mermaidInitialized' = TRUE
    /\ isRendering' = FALSE
    /\ retryCount' = 0
    /\ Initialize
    /\ UNCHANGED <<dark, hidden, readyState, page, diagrams, panZoom, mermaid, svgPanZoom,
                   timers, passes>>
    /\ UNCHANGED <<rankVars, jaccardVars, listVars, friendVars>>

\* A page evaluates the script of the widget
Evaluate ==
    /\ events < MaxEvents
    /\ events' = events + 1
    /\ IF mermaidInitialized
       THEN /\ log' = <<"evaluate", "returned: initialized">>
            /\ UNCHANGED <<mermaidInitialized, listeners, currentTheme, isRendering,
                           retryCount, stage, loads>>
       ELSE /\ mermaidInitialized' = TRUE
            /\ isRendering' = FALSE
            /\ retryCount' = 0
            /\ IF readyState = "loading"
               THEN /\ listeners' = [listeners EXCEPT !.domContentLoaded = @ + 1]
                    /\ currentTheme' = "null"
                    /\ stage' = "deferred"
                    /\ log' = <<"evaluate", "deferred">>
                    /\ UNCHANGED loads
               ELSE Initialize
    /\ UNCHANGED <<dark, hidden, readyState, page, diagrams, panZoom, mermaid, svgPanZoom,
                   timers, passes>>
    /\ UNCHANGED <<rankVars, jaccardVars, listVars, friendVars>>

\* The document has been parsed: DOMContentLoaded
DOMContentLoaded ==
    /\ readyState = "loading"
    /\ readyState' = "complete"
    /\ IF listeners.domContentLoaded > 0
       THEN Initialize
       ELSE /\ log' = <<"DOMContentLoaded">>
            /\ UNCHANGED <<listeners, currentTheme, loads, stage>>
    /\ UNCHANGED <<dark, hidden, page, diagrams, panZoom, mermaidInitialized, mermaid,
                   svgPanZoom, isRendering, retryCount, timers, passes, events>>
    /\ UNCHANGED <<rankVars, jaccardVars, listVars, friendVars>>

\* Mutant: loadSvgPanZoom rejects when both of its scripts fail
ScriptSettlesRejecting(library, loaded) ==
    /\ loads[library] \in {"primary", "fallback"}
    /\ loads' = [loads EXCEPT ![library] =
                    IF loaded THEN "resolved"
                    ELSE IF @ = "primary" THEN "fallback"
                    ELSE "rejected"]
    /\ svgPanZoom' = IF library = "svgPanZoom" /\ loaded THEN "function" ELSE svgPanZoom
    /\ LET window_mermaid == IF library = "mermaid" /\ loaded
                             THEN [mermaid EXCEPT !.state = "ready"]
                             ELSE mermaid
       IN  IF stage = "loading" /\ loads'.mermaid = "resolved" /\ loads'.svgPanZoom = "resolved"
           THEN /\ stage' = "initialized"
                /\ InitializeMermaid(timers, window_mermaid)
           ELSE /\ mermaid' = window_mermaid
                /\ stage' = IF stage = "loading" /\ "rejected" \in {loads'.mermaid, loads'.svgPanZoom}
                            THEN "failed" ELSE stage
                /\ log' = <<"load", library, loads'[library]>>
                /\ UNCHANGED <<isRendering, passes, panZoom, retryCount, timers>>
    /\ UNCHANGED <<dark, hidden, readyState, page, diagrams, mermaidInitialized,
                   listeners, currentTheme, events>>
    /\ UNCHANGED <<rankVars, jaccardVars, listVars, friendVars>>

\* A script element of loadMermaid or loadSvgPanZoom loads or fails; with it
\* Promise.all of initialize() may settle
ScriptSettles(library, loaded) ==
    /\ loads[library] \in {"primary", "fallback"}
    /\ loads' = [loads EXCEPT ![library] =
                    IF loaded THEN "resolved"
                    ELSE IF @ = "primary" THEN "fallback"
                    ELSE IF library = "mermaid" THEN "rejected"
                    ELSE "resolved"]
    /\ svgPanZoom' = IF library = "svgPanZoom" /\ loaded THEN "function" ELSE svgPanZoom
    /\ LET window_mermaid == IF library = "mermaid" /\ loaded
                             THEN [mermaid EXCEPT !.state = "ready"]
                             ELSE mermaid
       IN  IF stage = "loading" /\ loads'.mermaid = "resolved" /\ loads'.svgPanZoom = "resolved"
           THEN /\ stage' = "initialized"
                /\ InitializeMermaid(timers, window_mermaid)
           ELSE /\ mermaid' = window_mermaid
                /\ stage' = IF stage = "loading" /\ loads'.mermaid = "rejected"
                            THEN "failed" ELSE stage
                /\ log' = <<"load", library, loads'[library]>>
                /\ UNCHANGED <<isRendering, passes, panZoom, retryCount, timers>>
    /\ UNCHANGED <<dark, hidden, readyState, page, diagrams, mermaidInitialized,
                   listeners, currentTheme, events>>
    /\ UNCHANGED <<rankVars, jaccardVars, listVars, friendVars>>

\* The class "dark" of the html element is added or removed; the
\* mutation observer, when there is one, sees the change
ToggleTheme ==
    /\ events < MaxEvents
    /\ events' = events + 1
    /\ dark' = ~dark
    /\ IF listeners.observer > 0
       THEN LET isDark == dark'
                newTheme == ThemeOf(isDark)
            IN  IF currentTheme # newTheme
                THEN /\ currentTheme' = newTheme
                     /\ timers' = SetTimeout(timers, "theme")
                     /\ log' = <<"mutation", "render in 150 ms">>
                ELSE /\ log' = <<"mutation", "theme unchanged">>
                     /\ UNCHANGED <<currentTheme, timers>>
       ELSE /\ log' = <<"mutation", "no observer">>
            /\ UNCHANGED <<currentTheme, timers>>
    /\ UNCHANGED <<hidden, readyState, page, diagrams, panZoom, mermaidInitialized,
                   mermaid, svgPanZoom, listeners, isRendering, retryCount, stage,
                   loads, passes>>
    /\ UNCHANGED <<rankVars, jaccardVars, listVars, friendVars>>

\* astro:page-load: after the first load of the page, or after the document
\* was swapped for the document of another page
PageLoad ==
    /\ events < MaxEvents
    /\ events' = events + 1
    /\ readyState = "complete"
    /\ \/ UNCHANGED <<page, diagrams, panZoom>>
       \/ /\ page' = page + 1
          /\ diagrams' \in Documents
          /\ panZoom' = FALSE
    /\ IF listeners.pageLoad > 0
       THEN /\ currentTheme' = hasThemeChanged("null")[2]
            /\ retryCount' = 0
            /\ timers' = IF hasThemeChanged("null")[1]
                         THEN SetTimeout(timers, "pageLoad") ELSE timers
            /\ log' = <<"astro:page-load", "render in 100 ms">>
       ELSE /\ log' = <<"astro:page-load", "no listener">>
            /\ UNCHANGED <<currentTheme, retryCount, timers>>
    /\ UNCHANGED <<dark, hidden, readyState, mermaidInitialized, mermaid, svgPanZoom,
                   listeners, isRendering, stage, loads, passes>>
    /\ UNCHANGED <<rankVars, jaccardVars, listVars, friendVars>>

\* visibilitychange: the page is hidden or shown again
VisibilityChange ==
    /\ events < MaxEvents
    /\ events' = events + 1
    /\ hidden' = ~hidden
    /\ IF listeners.visibilityChange > 0 /\ ~hidden'
       THEN /\ timers' = SetTimeout(timers, "visibility")
            /\ log' = <<"visibilitychange", "render in 200 ms">>
       ELSE /\ log' = <<"visibilitychange", "nothing">>
            /\ UNCHANGED timers
    /\ UNCHANGED <<dark, readyState, page, diagrams, panZoom, mermaidInitialized,
                   mermaid, svgPanZoom, listeners, currentTheme, isRendering, retryCount,
                   stage, loads, passes>>
    /\ UNCHANGED <<rankVars, jaccardVars, listVars, friendVars>>

\* A timer set with () => renderMermaidDiagrams() fires
RenderTimer(kind) ==
    /\ kind # "initRetry"
    /\ timers[kind] > 0
    /\ timers' = ClearTimeout(timers, kind)
    /\ LET entered == EnterRender(isRendering, passes, panZoom, mermaid)
       IN  /\ isRendering' = entered.isRendering
           /\ passes' = entered.passes
           /\ panZoom' = entered.panZoom
           /\ log' = <<"renderMermaidDiagrams", entered.outcome, kind>>
    /\ UNCHANGED <<dark, hidden, readyState, page, diagrams, mermaidInitialized,
                   mermaid, svgPanZoom, listeners, currentTheme, retryCount, stage,
                   loads, events>>
    /\ UNCHANGED <<rankVars, jaccardVars, listVars, friendVars>>

\* The timer set with () => initializeMermaid() fires
InitRetryTimer ==
    /\ timers["initRetry"] > 0
    /\ InitializeMermaid(ClearTimeout(timers, "initRetry"), mermaid)
    /\ UNCHANGED <<dark, hidden, readyState, page, diagrams, mermaidInitialized,
                   svgPanZoom, listeners, currentTheme, stage, loads, events>>
    /\ UNCHANGED <<rankVars, jaccardVars, listVars, friendVars>>

---------------------------------------------------------------------------
(* Specification of the diagram widget *)

InitWidget ==
    /\ \E isDark \in BOOLEAN, ready \in {"loading", "complete"}, document \in Documents :
            InitWindow(isDark, ready, document)
    /\ InitLists
    /\ InitFriends(<<>>)
    /\ posts = <<>>
    /\ prod = TRUE
    /\ clock = 360
    /\ pc = "idle"
    /\ call = <<>>
    /\ scored = <<>>
    /\ result = <<>>
    /\ previous = <<>>
    /\ setA = {}
    /\ setB = {}
    /\ similarity = <<>>

Loads == \E library \in {"mermaid", "svgPanZoom"}, loaded \in BOOLEAN :
            ScriptSettles(library, loaded)

Timers == InitRetryTimer \/ \E kind \in TimerKinds : RenderTimer(kind)

Pass == \E k \in 1..Len(passes) :
            \/ AfterDelay(k)
            \/ \E i \in 1..Len(passes[k].elements) :
                    RenderResolves(k, i) \/ RenderRejects(k, i) \/ RetryAttempt(k, i)

NextWidget ==
    \/ Evaluate
    \/ DOMContentLoaded
    \/ Loads
    \/ Timers
    \/ Pass
    \/ ToggleTheme
    \/ PageLoad
    \/ VisibilityChange

SpecWidget == InitWidget /\ [][NextWidget]_vars

---------------------------------------------------------------------------
(* Specification of the diagram widget on one page that stays visible: the *)
(* only events after the first evaluation of the script are changes of the *)
(* theme.                                                                  *)

NextTheme ==
    \/ Evaluate
    \/ DOMContentLoaded
    \/ Loads
    \/ Timers
    \/ Pass
    \/ ToggleTheme

SpecTheme == InitWidget /\ [][NextTheme]_vars

---------------------------------------------------------------------------
(* getRawSortedPosts and getSortedPosts (src/unnamed/part_001)             *)

\* data.pinned as a condition: undefined and false are falsy
Pinned(data) == Has(data, "pinned") /\ data.pinned = TRUE

\* dateA > dateB on two Dates: false as soon as one is an Invalid Date
After(dateA, dateB) == dateA # NaN /\ dateB # NaN /\ dateA > dateB

\* The comparator of getRawSortedPosts: it never answers 0
ByPinnedThenDate(a, b) ==
    IF Pinned(a.data) /\ ~Pinned(b.data) THEN 0 - 1
    ELSE IF ~Pinned(a.data) /\ Pinned(b.data) THEN 1
    ELSE IF After(GetTime(a.data), GetTime(b.data)) THEN 0 - 1 ELSE 1

getRawSortedPosts(collection, isProd) ==
    LET allBlogPosts == GetCollection(collection, isProd)
        n == Len(allBlogPosts)
        cmp == [i \in 1..n |-> [j \in 1..n |->
                    ByPinnedThenDate(allBlogPosts[i], allBlogPosts[j])]]
    IN  Permute(allBlogPosts, SortPermutation(cmp))

\* object[field] = value
Assign(object, field, value) ==
    [f \in DOMAIN object \cup {field} |-> IF f = field THEN value ELSE object[f]]

\* sorted[i].data.nextSlug = ...; sorted[i].data.nextTitle = ...
WithNext(post, neighbour) ==
    Entry(post.id, Assign(Assign(post.data, "nextSlug", neighbour.id),
                          "nextTitle", neighbour.data.title))

\* sorted[i].data.prevSlug = ...; sorted[i].data.prevTitle = ...
WithPrev(post, neighbour) ==
    Entry(post.id, Assign(Assign(post.data, "prevSlug", neighbour.id),
                          "prevTitle", neighbour.data.title))

\* getSortedPosts with the two links the wrong way round
getSortedPostsSwapped(collection, isProd) ==
    LET sorted == getRawSortedPosts(collection, isProd)
        n == Len(sorted)
        first == [i \in 1..n |-> IF i >= 2 THEN WithPrev(sorted[i], sorted[i - 1])
                                           ELSE sorted[i]]
    IN  [i \in 1..n |-> IF i <= n - 1 THEN WithNext(first[i], first[i + 1])
                                      ELSE first[i]]

getSortedPosts(collection, isProd) ==
    LET sorted == getRawSortedPosts(collection, isProd)
        n == Len(sorted)
        first == [i \in 1..n |-> IF i >= 2 THEN WithNext(sorted[i], sorted[i - 1])
                                           ELSE sorted[i]]
    IN  [i \in 1..n |-> IF i <= n - 1 THEN WithPrev(first[i], first[i + 1])
                                      ELSE first[i]]

\* The collection after a call wrote the links into the entries it was
\* given: the array of getCollection is a new one at every call, its entries
\* are the content store's own objects or copies of them
Store(collection, sorted) ==
    [i \in 1..Len(collection) |->
        IF \E k \in 1..Len(sorted) : sorted[k].id = collection[i].id
        THEN sorted[CHOOSE k \in 1..Len(sorted) : sorted[k].id = collection[i].id]
        ELSE collection[i]]

---------------------------------------------------------------------------
(* GET of the calendar feed (src/unnamed/part_000)                         *)

\* One element of allPostsData; JSON.stringify leaves out a description
\* that is undefined and writes a published of NaN as null
FeedEntry(post) ==
    LET entry == [id |-> post.id,
                  title |-> post.data.title,
                  published |-> GetTime(post.data),
                  category |-> CategoryOrEmpty(post.data),
                  password |-> HasPassword(post.data)]
    IN  IF Has(post.data, "description")
        THEN Assign(entry, "description", post.data.description)
        ELSE entry

\* (a, b) => b.published - a.published
ByPublished(a, b) == NumSub(b.published, a.published)

AllPostsData(list) ==
    LET mapped == [i \in 1..Len(list) |-> FeedEntry(list[i])]
        n == Len(mapped)
        cmp == [i \in 1..n |-> [j \in 1..n |-> ByPublished(mapped[i], mapped[j])]]
    IN  Permute(mapped, SortPermutation(cmp))

---------------------------------------------------------------------------
(* Specification of the post list and the calendar feed                    *)

\* The entries of a collection that is listed: two pinned entries, one of
\* them with a link its front matter wrote; "queue" and "stack" of one date;
\* "changelog" unpinned in so many words; the protected "secret", the
\* "broken" entry with the Invalid Date and the draft "misc"
ListPool ==
    { e \in Pool : e.id \in {"queue", "stack", "secret", "broken", "misc"} } \cup
    { Entry("welcome",   [title |-> "Welcome", published |-> 0, pinned |-> TRUE,
                          description |-> "Start here"]),
      Entry("about",     [title |-> "About", published |-> 360, pinned |-> TRUE,
                          nextSlug |-> "welcome", prevSlug |-> "welcome"]),
      Entry("changelog", [title |-> "Changes", published |-> 540,
                          pinned |-> FALSE, category |-> "systems"]) }

InitPosts ==
    /\ posts \in InjectiveSeqs(ListPool, MaxPosts)
    /\ prod \in BOOLEAN
    /\ clock = 360
    /\ pc = "idle"
    /\ call = <<>>
    /\ scored = <<>>
    /\ result = <<>>
    /\ previous = <<>>
    /\ setA = {}
    /\ setB = {}
    /\ similarity = <<>>
    /\ NoWindow
    /\ InitLists
    /\ InitFriends(<<>>)

\* A page asks for the list of posts
PostList ==
    LET sorted == getSortedPosts(posts, prod)
    IN  /\ sortedPosts' = <<sorted>>
        /\ posts' \in {posts, Store(posts, sorted)}
        /\ UNCHANGED <<prod, clock, pc, call, scored, result, previous, feed>>
        /\ UNCHANGED <<jaccardVars, widgetVars, friendVars>>

\* The calendar feed is requested
GET ==
    LET sorted == getSortedPosts(posts, prod)
    IN  /\ sortedPosts' = <<sorted>>
        /\ posts' \in {posts, Store(posts, sorted)}
        /\ feed' = <<AllPostsData(sorted)>>
        /\ UNCHANGED <<prod, clock, pc, call, scored, result, previous>>
        /\ UNCHANGED <<jaccardVars, widgetVars, friendVars>>

NextPosts == PostList \/ GET

SpecPosts == InitPosts /\ [][NextPosts]_vars

---------------------------------------------------------------------------
(* friendsConfig and getEnabledFriends (src/src/config/friendsConfig.ts)   *)

MaxFriends == 3     \* longest friendsConfig
MaxCalls == 2       \* calls of getEnabledFriends

\* A FriendLink, without the fields that getEnabledFriends does not read
FriendLink(title, weight, enabled) ==
    [title |-> title, weight |-> weight, enabled |-> enabled]

\* The array as the source file has it
FriendsConfig ==
    << FriendLink("Linuxdo", 10, TRUE),
       FriendLink("Cuteleaf", 9, FALSE),
       FriendLink("FireflyDocs", 8, FALSE) >>

\* The links an edited friendsConfig can hold
FriendPool ==
    Range(FriendsConfig) \cup
    { FriendLink("Astro", 10, TRUE),
      FriendLink("MDN", 9, TRUE),
      FriendLink("Archive", 10, FALSE) }

\* (a, b) => b.weight - a.weight
ByWeight(a, b) == b.weight - a.weight

\* getEnabledFriends if it sorted friendsConfig itself before it filtered
getEnabledFriendsInPlace(config) ==
    LET n == Len(config)
        cmp == [i \in 1..n |-> [j \in 1..n |-> ByWeight(config[i], config[j])]]
        ordered == Permute(config, SortPermutation(cmp))
        Enabled(friend) == friend.enabled
    IN  [friendsConfig |-> ordered, value |-> SelectSeq(ordered, Enabled)]

\* The value of a call, and friendsConfig after it: filter makes a new
\* array, which sort then orders in place
getEnabledFriends(config) ==
    LET Enabled(friend) == friend.enabled
        filtered == SelectSeq(config, Enabled)
        n == Len(filtered)
        cmp == [i \in 1..n |-> [j \in 1..n |-> ByWeight(filtered[i], filtered[j])]]
    IN  [friendsConfig |-> config,
         value |-> Permute(filtered, SortPermutation(cmp))]

InitFriendLinks ==
    /\ posts = <<>>
    /\ prod = FALSE
    /\ clock = 360
    /\ pc = "idle"
    /\ call = <<>>
    /\ scored = <<>>
    /\ result = <<>>
    /\ previous = <<>>
    /\ setA = {}
    /\ setB = {}
    /\ similarity = <<>>
    /\ NoWindow
    /\ InitLists
    /\ \E config \in InjectiveSeqs(FriendPool, MaxFriends) : InitFriends(config)

\* A page asks for the friend links
FriendsPage ==
    /\ Len(friends) < MaxCalls
    /\ LET returned == getEnabledFriends(friendsConfig)
       IN  /\ friendsConfig' = returned.friendsConfig
           /\ friends' = Append(friends, returned.value)
    /\ UNCHANGED <<rankVars, jaccardVars, widgetVars, listVars>>

NextFriends == FriendsPage

SpecFriends == InitFriendLinks /\ [][NextFriends]_vars

---------------------------------------------------------------------------
(* The last call, as the properties below read it *)

Done == pc = "done"

Reference == call[1].currentPost

AskedCount == MaxCountOf(call[1].args)

\* The corpus the call ranked: what getCollection gave it
Corpus == GetCollection(posts, prod)

Restricted(e) == "password" \in DOMAIN e.data /\ e.data.password # ""

HasCategory(e) == "category" \in DOMAIN e.data /\ e.data.category # ""

\* A record whose publish timestamp cannot be parsed
Unparsable(e) == e.data.published = NaN

\* Positions in the corpus of the records that are neither the reference
\* nor restricted
Eligible == {i \in 1..Len(Corpus) : Corpus[i].id # Reference.id /\ ~Restricted(Corpus[i])}

Min(a, b) == IF a < b THEN a ELSE b

(* Order of the scored candidates.  A score that is NaN is in no order     *)
(* with any other: every comparison below is between two numbers.          *)

Candidate(id) == CHOOSE s \in Range(scored) : s.post.id = id

CorpusPosition(id) == CHOOSE k \in 1..Len(Corpus) : Corpus[k].id = id

IsNumber(x) == x # NaN

TagMatched(s) == s.tagMatchScore > 0

TagMatchedCandidates == {s \in Range(scored) : TagMatched(s)}

Output == [i \in 1..Len(result) |-> Candidate(result[i].id)]

InOutput(s) == \E i \in 1..Len(result) : result[i].id = s.post.id

\* x comes before y in total-score-descending order, ties in corpus order
RanksBefore(x, y) ==
    /\ IsNumber(x.totalScore) /\ IsNumber(y.totalScore)
    /\ \/ x.totalScore > y.totalScore
       \/ /\ x.totalScore = y.totalScore
          /\ CorpusPosition(x.post.id) < CorpusPosition(y.post.id)

Comparable(x, y) == x # y /\ IsNumber(x.totalScore) /\ IsNumber(y.totalScore)

FallbackKey(s) == NumAdd(s.timeFreshnessScore, s.categoryBonus)

\* The tag-matched entries of the output are in total-score-descending order
\* (ties in corpus order), and no tag-matched candidate left out of the
\* output ranks before one that is in it
TagMatchedInTotalOrder ==
    /\ \A i, j \in 1..Len(result) :
            (/\ i < j
             /\ TagMatched(Output[i]) /\ TagMatched(Output[j])
             /\ Comparable(Output[i], Output[j]))
                => RanksBefore(Output[i], Output[j])
    /\ \A x \in TagMatchedCandidates : \A i \in 1..Len(result) :
            (~InOutput(x) /\ TagMatched(Output[i]) /\ Comparable(x, Output[i]))
                => RanksBefore(Output[i], x)

---------------------------------------------------------------------------
(* C1: no record of the corpus with a truthy password is in the output of  *)
(* getRelatedPosts or among the candidates it scored, whatever its scores  *)
(* would be.                                                               *)
C1_RestrictedNeverRecommended ==
    Done =>
        /\ \A i \in 1..Len(result) : ~Restricted(result[i])
        /\ \A i \in 1..Len(scored) : ~Restricted(scored[i].post)
        /\ \A k \in 1..Len(Corpus) :
                Restricted(Corpus[k]) => \A i \in 1..Len(result) : result[i].id # Corpus[k].id

\* A restricted record that is not the reference is in the corpus, and the
\* output has entries and room for more
C1_Witness ==
    /\ Done
    /\ \E k \in 1..Len(Corpus) : Restricted(Corpus[k]) /\ Corpus[k].id # Reference.id
    /\ Len(result) >= 1
    /\ Len(result) < AskedCount

(* C2: the id of the reference record is never in the output, also when    *)
(* the reference record is a member of the corpus.                         *)
C2_ReferenceNeverRecommended ==
    Done => \A i \in 1..Len(result) : result[i].id # Reference.id

\* The reference is an unrestricted member of the corpus, and the output has
\* entries and room for more
C2_Witness ==
    /\ Done
    /\ \E k \in 1..Len(Corpus) : Corpus[k].id = Reference.id /\ ~Restricted(Corpus[k])
    /\ Len(result) >= 1
    /\ Len(result) < AskedCount

(* C3: for maxCount >= 0 the output has no id twice and its length is      *)
(* min(maxCount, number of eligible candidates).                           *)
C3_LengthAndNoDuplicates ==
    (Done /\ AskedCount >= 0) =>
        /\ \A i, j \in 1..Len(result) : i # j => result[i].id # result[j].id
        /\ Len(result) = Min(AskedCount, Cardinality(Eligible))

\* More eligible candidates than asked for: the output is cut at maxCount
C3_Witness ==
    /\ Done
    /\ AskedCount >= 1
    /\ Cardinality(Eligible) > AskedCount
    /\ Len(result) = AskedCount

(* C4: if at least maxCount eligible candidates are tag-matched, the       *)
(* output is made of tag-matched candidates only, and they are the first   *)
(* maxCount of them in total-score-descending order, ties in corpus order. *)
C4_TagMatchedFillTheOutput ==
    (Done /\ AskedCount >= 0 /\ Cardinality(TagMatchedCandidates) >= AskedCount) =>
        /\ Len(result) = AskedCount
        /\ \A i \in 1..Len(result) : TagMatched(Output[i])
        /\ TagMatchedInTotalOrder

(* C5: if fewer than maxCount eligible candidates are tag-matched, the     *)
(* output is all of them in total-score-descending order, then candidates  *)
(* without tag match in descending order of timeFreshnessScore +           *)
(* categoryBonus until maxCount is reached or none is left; every          *)
(* tag-matched entry comes before every entry without tag match.           *)
C5_FallbackFill ==
    (Done /\ Cardinality(TagMatchedCandidates) < AskedCount) =>
        LET matched == Cardinality(TagMatchedCandidates)
        IN  /\ Len(result) = Min(AskedCount, Len(scored))
            /\ \A i \in 1..Len(result) : TagMatched(Output[i]) <=> i <= matched
            /\ TagMatchedInTotalOrder
            /\ \A i, j \in 1..Len(result) :
                    (/\ matched < i /\ i < j
                     /\ IsNumber(FallbackKey(Output[i]))
                     /\ IsNumber(FallbackKey(Output[j])))
                        => FallbackKey(Output[i]) >= FallbackKey(Output[j])
            /\ \A x \in Range(scored) : \A i \in 1..Len(result) :
                    (/\ ~TagMatched(x) /\ ~InOutput(x) /\ matched < i
                     /\ IsNumber(FallbackKey(x))
                     /\ IsNumber(FallbackKey(Output[i])))
                        => FallbackKey(Output[i]) >= FallbackKey(x)

(* C6: two tag-matched candidates of equal total score that are both in    *)
(* the output are there in the order they have in the corpus.              *)
C6_TiesKeepCorpusOrder ==
    Done =>
        \A i, j \in 1..Len(result) :
            (/\ i < j
             /\ TagMatched(Output[i]) /\ TagMatched(Output[j])
             /\ IsNumber(Output[i].totalScore)
             /\ Output[i].totalScore = Output[j].totalScore)
                => CorpusPosition(result[i].id) < CorpusPosition(result[j].id)

C8_CategoryBonus ==
    Done =>
        \A i \in 1..Len(scored) :
            scored[i].categoryBonus =
                IF /\ HasCategory(Reference)
                   /\ HasCategory(scored[i].post)
                   /\ Reference.data.category = scored[i].post.data.category
                THEN 10 * Unit
                ELSE 0

\* One call scored a candidate of the reference's category, one whose
\* category differs from it in case only, and one without a category
C8_Witness ==
    /\ Done
    /\ HasCategory(Reference)
    /\ Reference.data.category = "systems"
    /\ \E i, j, k \in 1..Len(scored) :
        /\ scored[i].categoryBonus = 10 * Unit
        /\ HasCategory(scored[j].post) /\ scored[j].post.data.category = "Systems"
        /\ ~HasCategory(scored[k].post)

(* C9: jaccardSimilarity(A, B) is |A n B| / |A u B| when the union is not  *)
(* empty and 0 when both sets are empty; it is never NaN, lies in [0, 1]   *)
(* (so a score of 100 times it lies in [0, 100]) and is the same for       *)
(* (B, A).                                                                 *)
C9_Jaccard ==
    similarity # <<>> =>
        LET j == similarity[1]
            both == Cardinality(setA \cap setB)
            either == Cardinality(setA \cup setB)
        IN  /\ j # NaN
            /\ either = 0 => j = 0
            /\ either > 0 => j * either = both * Unit
            /\ 0 <= j /\ j <= Unit
            /\ 0 <= NumTimes(j, SimilarityPoints) /\ NumTimes(j, SimilarityPoints) <= 100 * Unit
            /\ j = jaccardSimilarity(setB, setA)

\* The call on two empty sets has returned
C9_Witness == similarity # <<>> /\ setA = {} /\ setB = {}

(* C10: a candidate with an unparsable publish timestamp stays a           *)
(* candidate; the call returns min(maxCount, eligible candidates) entries, *)
(* tag-matched ones first, and the candidates with a parsable timestamp    *)
(* are still in total-score-descending order among themselves.             *)
C10_UnparsableTimestamp ==
    (Done /\ AskedCount >= 0 /\ \E k \in Eligible : Unparsable(Corpus[k])) =>
        /\ \A k \in Eligible : \E i \in 1..Len(scored) : scored[i].post = Corpus[k]
        /\ Len(result) = Min(AskedCount, Cardinality(Eligible))
        /\ \A i, j \in 1..Len(result) :
                (TagMatched(Output[j]) /\ ~TagMatched(Output[i])) => j < i
        /\ \A i, j \in 1..Len(result) :
                (/\ i < j
                 /\ TagMatched(Output[i]) /\ TagMatched(Output[j])
                 /\ ~Unparsable(result[i]) /\ ~Unparsable(result[j]))
                    => Output[i].totalScore >= Output[j].totalScore

(* C11: a call of getRelatedPosts leaves the corpus as it was: the same    *)
(* records in the same order, every record (the reference too) made of an  *)
(* id and its data only, the scores held by the scored entries of the call *)
(* alone; a call repeated with the same inputs sees the same corpus and    *)
(* the same reference and computes the same scores.                        *)
C11_CorpusUnchanged ==
    [][pc' = "done" =>
        /\ posts' = posts
        /\ prod' = prod
        /\ \A k \in 1..Len(posts') : DOMAIN posts'[k] = {"id", "data"}
        /\ DOMAIN call'[1].currentPost = {"id", "data"}
        /\ \A i \in 1..Len(scored') :
                \E k \in 1..Len(posts) : scored'[i].post = posts[k]
        /\ \A i \in 1..Len(result') :
                \E k \in 1..Len(posts) :
                    result'[i] = [id |-> posts[k].id, data |-> posts[k].data]
        /\ pc = "done" =>
                /\ call'[1].currentPost = call[1].currentPost
                /\ scored' = scored]_vars

\* A repeated call has returned; the reference is in the corpus and the sort
\* of the call moved a later record of the corpus before an earlier one
C11_Witness ==
    /\ Done
    /\ previous # <<>>
    /\ \E k \in 1..Len(Corpus) : Corpus[k] = Reference
    /\ Len(result) >= 2
    /\ CorpusPosition(scored[1].post.id) > CorpusPosition(scored[2].post.id)

(* C12: two candidates without tag match that are both in the output and   *)
(* have the same timeFreshnessScore + categoryBonus are there in           *)
(* total-score-descending order, and in corpus order when their total      *)
(* scores are equal too: the fallback sort is stable over the list already *)
(* sorted by total score.                                                  *)
C12_FallbackTiesInTotalOrder ==
    Done =>
        \A i, j \in 1..Len(result) :
            (/\ i < j
             /\ ~TagMatched(Output[i]) /\ ~TagMatched(Output[j])
             /\ IsNumber(FallbackKey(Output[i]))
             /\ FallbackKey(Output[i]) = FallbackKey(Output[j]))
                => RanksBefore(Output[i], Output[j])

\* Days between the publish date of a scored candidate and the time the call
\* read
Age(s) == call[1].now - s.post.data.published

TitleSimilarityScore(s) ==
    NumTimes(jaccardSimilarity(tokenizeTitle(Reference.data.title),
                               tokenizeTitle(s.post.data.title)), 100)

C14_NegativeMaxCountFails == ~(Done /\ AskedCount < 0)

(* C14, amended: a call of getRelatedPosts with a negative maxCount scores *)
(* the eligible candidates and returns the empty list, as a call with      *)
(* maxCount 0 does; no error is raised.                                    *)
C14_NegativeMaxCountReturnsEmpty ==
    (Done /\ AskedCount <= 0) =>
        /\ result = <<>>
        /\ Len(scored) = Cardinality(Eligible)

\* A call with maxCount -1 has returned; it had scored two or more
\* candidates, one of them tag-matched and one not
C14_Witness ==
    /\ Done
    /\ AskedCount = 0 - 1
    /\ Len(scored) >= 2
    /\ \E i, j \in 1..Len(scored) : TagMatched(scored[i]) /\ ~TagMatched(scored[j])

---------------------------------------------------------------------------
(* The diagram widget *)

(* C15: whatever the order of the render triggers (initializeMermaid, the  *)
(* timers of the mutation observer, of astro:page-load, of visibilitychange*)
(* and of the retry), at most one execution of renderMermaidDiagrams is    *)
(* past its guard, and isRendering is true exactly while one is: the       *)
(* return on no elements, the end of a pass and the exception all leave it *)
(* false.                                                                  *)
C15_OneRenderAtATime ==
    /\ Len(passes) <= 1
    /\ isRendering <=> Len(passes) = 1

\* A timer has called renderMermaidDiagrams while a pass was waiting for
\* mermaid.render, and the call returned at the guard
C15_Witness ==
    /\ Len(log) = 3
    /\ log[1] = "renderMermaidDiagrams"
    /\ log[2] = "skipped: rendering"
    /\ Len(passes) = 1
    /\ \E i \in 1..Len(passes[1].elements) : passes[1].elements[i].state = "rendering"

\* Nothing is left to run: no load, no timer and no pass is pending
Quiescent ==
    /\ passes = <<>>
    /\ \A kind \in TimerKinds : timers[kind] = 0
    /\ loads.mermaid \notin {"primary", "fallback"}
    /\ loads.svgPanZoom \notin {"primary", "fallback"}
    /\ stage # "deferred"

(* C16: after any changes of the dark class, also changes made while a     *)
(* pass is in progress, when no load, no timer and no pass is pending,     *)
(* every diagram of the document that shows an svg shows it in the theme   *)
(* and with the filter of the document's present dark class.               *)
C16_ThemeFollowsDocument ==
    Quiescent =>
        \A i \in 1..Len(diagrams) :
            diagrams[i].content.kind = "svg" =>
                diagrams[i].content = Svg(ThemeOf(dark), dark)

\* The pass that has just ended with the end of its last attempt loop
Completed == Len(log) = 3 /\ log[1] = "pass" /\ log[2] = "completed"

\* What holds of an element of a pass, in progress or just ended
AttemptsInBounds(element) ==
    /\ element.calls <= 3
    /\ element.code = "" => element.calls = 0 /\ element.shown = "none"
    /\ element.shown = "svg" => element.calls = element.attempts + 1
    /\ element.shown = "error" <=> element.attempts = 3
    /\ element.state = "done" /\ element.code # "" => element.shown \in {"svg", "error"}
    /\ element.state = "waiting" => element.attempts \in 1..2

(* C17: in one pass mermaid.render is called at most 3 times for an        *)
(* element with code; no call follows the first that resolved; at the end  *)
(* of the pass the element shows the error placeholder if and only if 3    *)
(* calls were rejected, and the svg otherwise; an element that fails       *)
(* leaves the attempt loops of the other elements as they are, and the     *)
(* pass ends as soon as every loop has ended.                              *)
C17_AttemptsPerElement ==
    [][/\ \A k \in 1..Len(passes') :
            /\ ~AllSettled(passes'[k])
            /\ \A i \in 1..Len(passes'[k].elements) :
                    AttemptsInBounds(passes'[k].elements[i])
       /\ Completed' =>
            LET pass == log'[3]
            IN  \A i \in 1..Len(pass.elements) :
                    /\ AttemptsInBounds(pass.elements[i])
                    /\ pass.elements[i].state = "done"
                    /\ pass.elements[i].code # "" =>
                            /\ pass.elements[i].calls \in 1..3
                            /\ pass.page = page' =>
                                    diagrams'[i].content.kind = pass.elements[i].shown
       /\ (Len(passes) = 1 /\ passes[1].pc = "rendering" /\ log'[1] = "pass") =>
            LET after == IF Completed' THEN log'[3] ELSE passes'[1]
                changed == {i \in 1..Len(passes[1].elements) :
                                after.elements[i] # passes[1].elements[i]}
            IN  /\ Cardinality(changed) = 1
                /\ \A i \in changed : passes[1].elements[i].state # "done"]_vars

\* A pass over two elements with code has ended: the first shows the error
\* placeholder after 3 rejected calls, the second its svg after one
\* rejected call and one that resolved
C17_Witness ==
    /\ Completed
    /\ Len(log[3].elements) = 2
    /\ log[3].elements[1].shown = "error" /\ log[3].elements[1].calls = 3
    /\ log[3].elements[2].shown = "svg" /\ log[3].elements[2].calls = 2
    /\ diagrams[1].content = ErrorPlaceholder
    /\ diagrams[2].content.kind = "svg"

\* The step is an evaluation of the widget script
Evaluation == events' = events + 1 /\ log'[1] \in {"evaluate", "initialize"}

(* C18: the setup of the widget runs at most once in a window however      *)
(* often the script is evaluated: there is never more than one mutation    *)
(* observer or one listener of a kind, initialize() starts at most once,   *)
(* and an evaluation that finds window.mermaidInitialized set registers no *)
(* listener, starts no load and no render and changes nothing of the       *)
(* widget.                                                                 *)
C18_SetupOnce ==
    [][/\ listeners'.observer <= 1
       /\ listeners'.pageLoad <= 1
       /\ listeners'.visibilityChange <= 1
       /\ listeners'.domContentLoaded <= 1
       /\ (stage' = "loading" /\ stage # "loading") => stage \in {"none", "deferred"}
       /\ (Evaluation /\ mermaidInitialized) =>
            /\ log' = <<"evaluate", "returned: initialized">>
            /\ UNCHANGED <<windowVars, closureVars>>]_vars

\* The script has been evaluated again after the setup had registered its
\* listeners and started a pass
C18_Witness ==
    /\ log = <<"evaluate", "returned: initialized">>
    /\ events >= 2
    /\ listeners.observer = 1
    /\ stage = "initialized"
    /\ Len(passes) = 1

\* The step has set a timer that retries initializeMermaid or
\* renderMermaidDiagrams; the step of a retry of initializeMermaid has taken
\* its own timer away
RetryScheduled ==
    LET fired == IF log'[1] = "initializeMermaid" /\ stage = "initialized" THEN 1 ELSE 0
    IN  \/ timers'["retry"] > timers["retry"]
        \/ timers'["initRetry"] > timers["initRetry"] - fired

\* The step is the catch of initializeMermaid or of renderMermaidDiagrams
Failure == log' \in {<<"pass", "failed">>, <<"initializeMermaid", "failed">>}

(* C19: retryCount is in 0..MAX_RETRIES in every state; initializeMermaid  *)
(* or a pass that fails sets a retry if and only if retryCount is below    *)
(* MAX_RETRIES, and counts it; retryCount goes down only to 0, on          *)
(* astro:page-load or at the end of a pass: without one of the two the     *)
(* fourth failure sets no retry.                                           *)
C19_RetriesBounded ==
    [][/\ retryCount' \in 0..MAX_RETRIES
       /\ RetryScheduled => Failure /\ retryCount < MAX_RETRIES /\ retryCount' = retryCount + 1
       /\ Failure => IF retryCount < MAX_RETRIES
                     THEN RetryScheduled
                     ELSE ~RetryScheduled /\ retryCount' = retryCount
       /\ retryCount' < retryCount =>
            /\ retryCount' = 0
            /\ log'[1] = "astro:page-load" \/ Completed']_vars

\* The fourth pass in a row has failed: retryCount is 3 and no retry is set
C19_Witness ==
    /\ log = <<"pass", "failed">>
    /\ retryCount = MAX_RETRIES
    /\ \A kind \in TimerKinds : timers[kind] = 0
    /\ passes = <<>>
    /\ ~isRendering

(* C20: svg-pan-zoom failing to load from both CDNs does not keep the      *)
(* diagrams from being rendered: loadSvgPanZoom never rejects; once both   *)
(* loads have settled without a rejection initialize() has gone on to      *)
(* initializeMermaid, with or without window.svgPanZoom; initialize() has  *)
(* failed exactly when both Mermaid CDNs failed; and a pass that ends      *)
(* without the library skips initPanZoom and ends as any other.            *)
C20_PanZoomOptional ==
    /\ loads.svgPanZoom # "rejected"
    /\ (loads.mermaid = "resolved" /\ loads.svgPanZoom = "resolved") => stage = "initialized"
    /\ stage = "initialized" => mermaid.state = "ready"
    /\ stage = "failed" <=> loads.mermaid = "rejected"
    /\ svgPanZoom = "function" => loads.svgPanZoom = "resolved"
    /\ svgPanZoom = "undefined" => ~panZoom
    /\ (Completed /\ svgPanZoom = "undefined") =>
            /\ retryCount = 0
            /\ ~isRendering

\* Both svg-pan-zoom scripts failed, both Mermaid scripts did not, and the
\* first pass has ended with the svg of every diagram and no pan-zoom
C20_Witness ==
    /\ loads.svgPanZoom = "resolved"
    /\ svgPanZoom = "undefined"
    /\ stage = "initialized"
    /\ Completed
    /\ Len(diagrams) = 2
    /\ \A i \in 1..Len(diagrams) : diagrams[i].content.kind = "svg"
    /\ ~panZoom

---------------------------------------------------------------------------
(* The post list and the calendar feed *)

\* The list the last call of getSortedPosts returned
Listed == sortedPosts # <<>>

PostsListed == sortedPosts[1]

\* Two positions of the list whose posts are both pinned or both unpinned
SamePin(i, j) == Pinned(PostsListed[i].data) <=> Pinned(PostsListed[j].data)

\* C21: getRawSortedPosts puts every pinned post before every unpinned one;
\* two posts of one pin status with publish dates that parse stand newest
\* first, and in the order of the collection when the dates are equal.
C21_PinnedThenNewest ==
    Listed =>
        \A i, j \in 1..Len(PostsListed) : i < j =>
            LET a == PostsListed[i]
                b == PostsListed[j]
            IN  /\ Pinned(b.data) => Pinned(a.data)
                /\ SamePin(i, j) /\ ~Unparsable(a) /\ ~Unparsable(b) =>
                      /\ GetTime(a.data) >= GetTime(b.data)
                      /\ GetTime(a.data) = GetTime(b.data) =>
                            CorpusPosition(a.id) < CorpusPosition(b.id)

\* The value of a link of an entry, if the entry has that link
Link(data, field) == IF Has(data, field) THEN <<data[field]>> ELSE <<>>

\* The entry of the collection with the id of a listed post
Collected(post) == Corpus[CorpusPosition(post.id)]

\* C22: in the list getSortedPosts returned, the prevSlug of every post but
\* the last is the id of the post after it and the nextSlug of every post
\* but the first is the id of the post before it; the first post has the
\* nextSlug, and the last post the prevSlug, that the collection holds for
\* it, none if the collection holds none.
C22_NeighbourLinks ==
    Listed =>
        LET n == Len(PostsListed)
        IN  /\ \A i \in 1..(n - 1) :
                    /\ Link(PostsListed[i].data, "prevSlug") = <<PostsListed[i + 1].id>>
                    /\ Link(PostsListed[i + 1].data, "nextSlug") = <<PostsListed[i].id>>
            /\ n >= 1 =>
                    /\ Link(PostsListed[1].data, "nextSlug")
                            = Link(Collected(PostsListed[1]).data, "nextSlug")
                    /\ Link(PostsListed[n].data, "prevSlug")
                            = Link(Collected(PostsListed[n]).data, "prevSlug")

\* A list of three posts was returned; its first post has the nextSlug that
\* its front matter wrote and its last post has no prevSlug
C22_Witness ==
    /\ Listed
    /\ Len(PostsListed) = 3
    /\ PostsListed[1].id = "about"
    /\ Link(PostsListed[1].data, "nextSlug") = <<"welcome">>
    /\ Link(PostsListed[3].data, "prevSlug") = <<>>

\* The body of the last response of GET
Served == feed # <<>>

AllPosts == feed[1]

\* The listed post that an element of the feed stands for
PostOf(element) == CHOOSE post \in Range(PostsListed) : post.id = element.id

\* C23: the feed of GET has one element for each post of getSortedPosts and
\* no other; two elements with publish times that parse stand newest first,
\* pinned or not; the password of an element is a boolean, true exactly
\* when its post has a password that is not empty.
C23_CalendarFeed ==
    Served =>
        /\ Len(AllPosts) = Len(PostsListed)
        /\ \A post \in Range(PostsListed) :
                Cardinality({i \in 1..Len(AllPosts) : AllPosts[i].id = post.id}) = 1
        /\ \A i, j \in 1..Len(AllPosts) :
                (i < j /\ IsNumber(AllPosts[i].published)
                       /\ IsNumber(AllPosts[j].published))
                    => AllPosts[i].published >= AllPosts[j].published
        /\ \A i \in 1..Len(AllPosts) :
                /\ AllPosts[i].password \in BOOLEAN
                /\ AllPosts[i].password <=>
                        (/\ Has(PostOf(AllPosts[i]).data, "password")
                         /\ PostOf(AllPosts[i]).data.password # "")

---------------------------------------------------------------------------
(* The friend links *)

\* Position of a link in friendsConfig
ConfigPosition(friend) ==
    CHOOSE k \in 1..Len(friendsConfig) : friendsConfig[k] = friend

\* C24: a call of getEnabledFriends returns the links of friendsConfig that
\* are enabled, each once and no other, heaviest first and links of one
\* weight in the order of friendsConfig; it leaves friendsConfig as it was;
\* and it returns what the call before it returned.
C24_EnabledFriends ==
    [][friends' # friends =>
        LET returned == friends'[Len(friends')]
        IN  /\ Range(returned) = {friend \in Range(friendsConfig) : friend.enabled}
            /\ \A i, j \in 1..Len(returned) : i < j =>
                    /\ returned[i] # returned[j]
                    /\ returned[i].weight >= returned[j].weight
                    /\ returned[i].weight = returned[j].weight =>
                            ConfigPosition(returned[i]) < ConfigPosition(returned[j])
            /\ friendsConfig' = friendsConfig
            /\ friends # <<>> => returned = friends[Len(friends)]]_vars

\* Two calls were made on a friendsConfig with a disabled link, whose first
\* enabled link is not the heaviest one
C24_Witness ==
    /\ Len(friends) = 2
    /\ \E friend \in Range(friendsConfig) : ~friend.enabled
    /\ Len(friends[2]) >= 2
    /\ ConfigPosition(friends[2][1]) > ConfigPosition(friends[2][2])

====
